---- MODULE Spec2Model ----
(***************************************************************************)
(* Model of ApiHandler (src/src/handler/api.ts): the three request         *)
(* handlers handleRequestMachine (Reserve), handleGetMachine (GetState)    *)
(* and handleStartMachine (StartCycle) acting on the machine table, the    *)
(* process-wide cache and the smart-machine client.                        *)
(*                                                                         *)
(* The handlers are synchronous TypeScript (no await, no callback), so     *)
(* each one runs to completion before the next request is served: one      *)
(* action per handler.  Concurrent calls are calls that are in flight      *)
(* together and are served in any order.                                   *)
(*                                                                         *)
(* MachineStateTable, DataCache and SmartMachineClient are imported by     *)
(* api.ts but their code is not part of the sources; they are modelled     *)
(* from the interface the specification gives for them: a durable          *)
(* key-value store whose reads return records (values), individually       *)
(* atomic field updates, and a cache holding a copy of what was put.       *)
(***************************************************************************)
EXTENDS Integers, Sequences, FiniteSets, TLC

\* ---------------------------------------------------------------- bounds
NumMachines == 2      \* machines provisioned in the table: ids 1..NumMachines
NumJobs == 2          \* job ids a Reserve request may carry: 1..NumJobs
MaxConcurrent == 3    \* largest number of Reserve calls in flight together

\* ------------------------------------------------------------- vocabulary
MachineIds == 1 .. NumMachines
UnknownId == 0                        \* a machine id the table does not hold
RequestIds == 0 .. NumMachines        \* ids a GetState / StartCycle may name
JobIds == 1 .. NumJobs
Null == 0                             \* jobId: null
PriorJob == NumJobs + 1               \* job bound before the handler was built
Locations == {"L1", "L2"}

\* MachineStatus (schema.ts, used at api.ts 46, 53, 113, 124, 138)
AVAILABLE == "AVAILABLE"
AWAITING_DROPOFF == "AWAITING_DROPOFF"
RUNNING == "RUNNING"
ERROR == "ERROR"
MachineStatus == {AVAILABLE, AWAITING_DROPOFF, RUNNING, ERROR}

\* HttpResponseCode (model.ts, used at api.ts 49, 59, 85, 109, 115, 128, 134, 148)
OK == "OK"
NOT_FOUND == "NOT_FOUND"
BAD_REQUEST == "BAD_REQUEST"
HARDWARE_ERROR == "HARDWARE_ERROR"
INTERNAL_SERVER_ERROR == "INTERNAL_SERVER_ERROR"

\* the location a provisioned machine stands at (immutable)
LocationOf(m) == IF m % 3 = 0 THEN "L2" ELSE "L1"

\* MachineStateDocument
MachineStateDocument(m, st, j) ==
  [machineId |-> m, locationId |-> LocationOf(m), status |-> st, jobId |-> j]

\* undefined: no record (table miss, cache miss, response without machine)
Undefined == [machineId |-> 0 - 1, locationId |-> "-", status |-> "-", jobId |-> 0]

VARIABLES
  store,        \* MachineStateTable: machine id -> MachineStateDocument
  cache,        \* DataCache: id -> MachineStateDocument or Undefined
  startCalls,   \* SmartMachineClient.startCycle: number of calls per id
  resp,         \* the request served last and the response it got
  transition,   \* per machine, the status the last Reserve/StartCycle set
  reservedOk,   \* per machine, number of Reserve calls that returned it OK
  inflight      \* the Reserve calls in flight together against one location

vars == <<store, cache, startCalls, resp, transition, reservedOk, inflight>>

\* ---------------------------------------------------- MachineStateTable
\* listMachinesAtLocation: the records at a location, in listing (id) order
RECURSIVE ListUpTo(_, _, _)
ListUpTo(s, l, n) ==
  IF n = 0 THEN <<>>
  ELSE IF s[n].locationId = l THEN Append(ListUpTo(s, l, n - 1), s[n])
       ELSE ListUpTo(s, l, n - 1)

listMachinesAtLocation(s, l) == ListUpTo(s, l, NumMachines)

getMachine(s, id) == IF id \in DOMAIN s THEN s[id] ELSE Undefined

updateMachineStatus(s, id, st) ==
  IF id \in DOMAIN s THEN [s EXCEPT ![id].status = st] ELSE s

updateMachineJobId(s, id, j) ==
  IF id \in DOMAIN s THEN [s EXCEPT ![id].jobId = j] ELSE s

\* ------------------------------------------------------------ DataCache
cacheGet(c, id) == c[id]
cachePut(c, id, doc) == [c EXCEPT ![id] = doc]

\* ------------------------------------------------------ SmartMachineClient
\* startCycle(machineId): returns, or throws on a hardware error
StartCycleOutcomes == {"returns", "throws"}

\* ------------------------------------------------------------- requests
NoRequest ==
  [op |-> "none", machineId |-> 0, locationId |-> "-", jobId |-> 0,
   statusCode |-> "-", machine |-> Undefined]

ReserveResponse(l, j, code, doc) ==
  [op |-> "Reserve", machineId |-> 0, locationId |-> l, jobId |-> j,
   statusCode |-> code, machine |-> doc]

GetStateResponse(id, code, doc) ==
  [op |-> "GetState", machineId |-> id, locationId |-> "-", jobId |-> 0,
   statusCode |-> code, machine |-> doc]

StartCycleResponse(id, code, doc) ==
  [op |-> "StartCycle", machineId |-> id, locationId |-> "-", jobId |-> 0,
   statusCode |-> code, machine |-> doc]

Idle == [loc |-> "-", n |-> 0, pending |-> 0, ok |-> 0, nf |-> 0]

\* ----------------------------------------------------------------- Init
\* The table holds NumMachines provisioned machines in any status; an
\* AVAILABLE machine has no job, any other holds the job bound to it earlier.
\* The cache is empty, the controller has not been called.
InitialDocuments(m) ==
  {MachineStateDocument(m, st, IF st = AVAILABLE THEN Null ELSE PriorJob) :
     st \in MachineStatus}

Init ==
  /\ store \in {s \in [MachineIds -> UNION {InitialDocuments(m) : m \in MachineIds}] :
                  \A m \in MachineIds : s[m] \in InitialDocuments(m)}
  /\ cache = [id \in RequestIds |-> Undefined]
  /\ startCalls = [id \in RequestIds |-> 0]
  /\ resp = NoRequest
  /\ transition = [m \in MachineIds |-> "none"]
  /\ reservedOk = [m \in MachineIds |-> 0]
  /\ inflight = Idle

\* ------------------------------------------------- handleRequestMachine
\* mutants of the predicate of line 46
IsAvailable_Any(machine) == TRUE
IsAvailable_NotRunning(machine) == machine.status # RUNNING

\* api.ts 46: machine => machine.status === MachineStatus.AVAILABLE
IsAvailable(machine) == machine.status = AVAILABLE

\* api.ts 46: machines.find(...): index of the first match, 0 when undefined
RECURSIVE FindFrom(_, _)
FindFrom(machines, i) ==
  IF i > Len(machines) THEN 0
  ELSE IF IsAvailable(machines[i]) THEN i
       ELSE FindFrom(machines, i + 1)

\* mutant of find: the last match instead of the first
RECURSIVE FindLastFrom(_, _)
FindLastFrom(machines, i) ==
  IF i = 0 THEN 0
  ELSE IF IsAvailable(machines[i]) THEN i
       ELSE FindLastFrom(machines, i - 1)

Find_Last(machines) == FindLastFrom(machines, Len(machines))

Find(machines) == FindFrom(machines, 1)

\* mutants of the updates of lines 53-54: one of the two calls is missing
ReserveUpdates_JobOnly(s, id, j) == updateMachineJobId(s, id, j)
ReserveUpdates_StatusOnly(s, id, j) == updateMachineStatus(s, id, AWAITING_DROPOFF)

\* api.ts 53-54: the two table updates of a reservation
ReserveUpdates(s, id, j) ==
  updateMachineJobId(updateMachineStatus(s, id, AWAITING_DROPOFF), id, j)

\* bookkeeping of the calls in flight together: a call against their
\* location is one of them
Served(l, code) ==
  IF inflight.pending > 0 /\ l = inflight.loc
  THEN [inflight EXCEPT !.pending = @ - 1,
                        !.ok = IF code = OK THEN @ + 1 ELSE @,
                        !.nf = IF code = NOT_FOUND THEN @ + 1 ELSE @]
  ELSE inflight

HandleRequestMachine(l, j) ==
  LET machines == listMachinesAtLocation(store, l)
      i == Find(machines)
  IN IF i = 0
     THEN /\ resp' = ReserveResponse(l, j, NOT_FOUND, Undefined)
          /\ inflight' = Served(l, NOT_FOUND)
          /\ UNCHANGED <<store, cache, startCalls, transition, reservedOk>>
     ELSE LET availableMachine == machines[i]
          IN /\ store' = ReserveUpdates(store, availableMachine.machineId, j)
             /\ cache' = cachePut(cache, availableMachine.machineId, availableMachine)
             /\ resp' = ReserveResponse(l, j, OK, availableMachine)
             /\ transition' = [transition EXCEPT
                                 ![availableMachine.machineId] = AWAITING_DROPOFF]
             /\ reservedOk' = [reservedOk EXCEPT
                                 ![availableMachine.machineId] = @ + 1]
             /\ inflight' = Served(l, OK)
             /\ UNCHANGED startCalls

\* N >= 2 Reserve calls are issued together against a location that has
\* exactly one AVAILABLE machine
CountAvailable(l) ==
  Cardinality({m \in MachineIds : store[m].locationId = l /\ store[m].status = AVAILABLE})

IssueConcurrent(l, n) ==
  /\ inflight = Idle
  /\ CountAvailable(l) = 1
  /\ inflight' = [loc |-> l, n |-> n, pending |-> n, ok |-> 0, nf |-> 0]
  /\ UNCHANGED <<store, cache, startCalls, resp, transition, reservedOk>>

\* ----------------------------------------------------- handleGetMachine
\* mutant: the check of line 84 is missing, a table miss is answered OK
HandleGetMachine_NoMissCheck(id) ==
  LET cachedMachine == cacheGet(cache, id)
  IN IF cachedMachine # Undefined
     THEN /\ resp' = GetStateResponse(id, OK, cachedMachine)
          /\ UNCHANGED <<store, cache, startCalls, transition, reservedOk, inflight>>
     ELSE LET machine == getMachine(store, id)
          IN /\ cache' = cachePut(cache, id, machine)
             /\ resp' = GetStateResponse(id, OK, machine)
             /\ UNCHANGED <<store, startCalls, transition, reservedOk, inflight>>

\* mutant: the cache is not consulted, every call reads the table and
\* refreshes the cache
HandleGetMachine_AlwaysStore(id) ==
  LET machine == getMachine(store, id)
  IN IF machine = Undefined
     THEN /\ resp' = GetStateResponse(id, NOT_FOUND, Undefined)
          /\ UNCHANGED <<store, cache, startCalls, transition, reservedOk, inflight>>
     ELSE /\ cache' = cachePut(cache, id, machine)
          /\ resp' = GetStateResponse(id, OK, machine)
          /\ UNCHANGED <<store, startCalls, transition, reservedOk, inflight>>

HandleGetMachine(id) ==
  LET cachedMachine == cacheGet(cache, id)
  IN IF cachedMachine # Undefined
     THEN /\ resp' = GetStateResponse(id, OK, cachedMachine)
          /\ UNCHANGED <<store, cache, startCalls, transition, reservedOk, inflight>>
     ELSE LET machine == getMachine(store, id)
          IN IF machine = Undefined
             THEN /\ resp' = GetStateResponse(id, NOT_FOUND, Undefined)
                  /\ UNCHANGED <<store, cache, startCalls, transition,
                                 reservedOk, inflight>>
             ELSE /\ cache' = cachePut(cache, id, machine)
                  /\ resp' = GetStateResponse(id, OK, machine)
                  /\ UNCHANGED <<store, startCalls, transition, reservedOk, inflight>>

\* --------------------------------------------------- handleStartMachine
\* mutants of the status gate of line 113
IsAwaitingDropoff_NotAvailable(machine) == machine.status # AVAILABLE
IsAwaitingDropoff_Any(machine) == TRUE

\* api.ts 113: the status gate (true: the cycle may be started)
IsAwaitingDropoff(machine) == machine.status = AWAITING_DROPOFF

\* mutants of the status written: the two branches write the same status
StatusAfterStart_AlwaysRunning(outcome) == RUNNING
StatusAfterStart_AlwaysError(outcome) == ERROR
\* mutant: the catch branch leaves the status as it was
StatusAfterStart_NoErrorWrite(outcome) ==
  IF outcome = "returns" THEN RUNNING ELSE AWAITING_DROPOFF

\* api.ts 124 / 138: the status written after the device command
StatusAfterStart(outcome) == IF outcome = "returns" THEN RUNNING ELSE ERROR

\* api.ts 134 / 148: the response code after the device command
CodeAfterStart(outcome) == IF outcome = "returns" THEN OK ELSE HARDWARE_ERROR

\* mutant: write-behind, the record with the new status is cached but the
\* table update of line 124 / 138 is not made
HandleStartMachine_WriteBehind(id, outcome) ==
  LET machine == getMachine(store, id)
  IN IF machine = Undefined
     THEN /\ resp' = StartCycleResponse(id, NOT_FOUND, Undefined)
          /\ UNCHANGED <<store, cache, startCalls, transition, reservedOk, inflight>>
     ELSE IF ~ IsAwaitingDropoff(machine)
     THEN /\ resp' = StartCycleResponse(id, BAD_REQUEST, machine)
          /\ UNCHANGED <<store, cache, startCalls, transition, reservedOk, inflight>>
     ELSE LET updatedMachine == [machine EXCEPT !.status = StatusAfterStart(outcome)]
          IN /\ startCalls' = [startCalls EXCEPT ![id] = @ + 1]
             /\ transition' = [transition EXCEPT ![id] = StatusAfterStart(outcome)]
             /\ cache' = cachePut(cache, id, updatedMachine)
             /\ resp' = StartCycleResponse(id, CodeAfterStart(outcome), updatedMachine)
             /\ UNCHANGED <<store, reservedOk, inflight>>

\* mutant: the record of line 106 is taken from the cache when it is there
HandleStartMachine_FromCache(id, outcome) ==
  LET machine == IF cacheGet(cache, id) # Undefined THEN cacheGet(cache, id)
                 ELSE getMachine(store, id)
  IN IF machine = Undefined
     THEN /\ resp' = StartCycleResponse(id, NOT_FOUND, Undefined)
          /\ UNCHANGED <<store, cache, startCalls, transition, reservedOk, inflight>>
     ELSE IF ~ IsAwaitingDropoff(machine)
     THEN /\ resp' = StartCycleResponse(id, BAD_REQUEST, machine)
          /\ UNCHANGED <<store, cache, startCalls, transition, reservedOk, inflight>>
     ELSE LET updated == updateMachineStatus(store, id, StatusAfterStart(outcome))
              updatedMachine == getMachine(updated, id)
          IN /\ startCalls' = [startCalls EXCEPT ![id] = @ + 1]
             /\ store' = updated
             /\ transition' = [transition EXCEPT ![id] = StatusAfterStart(outcome)]
             /\ cache' = cachePut(cache, id, updatedMachine)
             /\ resp' = StartCycleResponse(id, CodeAfterStart(outcome), updatedMachine)
             /\ UNCHANGED <<reservedOk, inflight>>

HandleStartMachine(id, outcome) ==
  LET machine == getMachine(store, id)
  IN IF machine = Undefined
     THEN /\ resp' = StartCycleResponse(id, NOT_FOUND, Undefined)
          /\ UNCHANGED <<store, cache, startCalls, transition, reservedOk, inflight>>
     ELSE IF ~ IsAwaitingDropoff(machine)
     THEN /\ resp' = StartCycleResponse(id, BAD_REQUEST, machine)
          /\ UNCHANGED <<store, cache, startCalls, transition, reservedOk, inflight>>
     ELSE LET updated == updateMachineStatus(store, id, StatusAfterStart(outcome))
              updatedMachine == getMachine(updated, id)
          IN /\ startCalls' = [startCalls EXCEPT ![id] = @ + 1]
             /\ store' = updated
             /\ transition' = [transition EXCEPT ![id] = StatusAfterStart(outcome)]
             /\ IF updatedMachine = Undefined
                THEN /\ resp' = StartCycleResponse(id, INTERNAL_SERVER_ERROR, Undefined)
                     /\ UNCHANGED cache
                ELSE /\ cache' = cachePut(cache, id, updatedMachine)
                     /\ resp' = StartCycleResponse(id, CodeAfterStart(outcome),
                                                   updatedMachine)
             /\ UNCHANGED <<reservedOk, inflight>>

\* ----------------------------------------------------------------- Next
Reserve == \E l \in Locations, j \in JobIds : HandleRequestMachine(l, j)
Concurrent == \E l \in Locations, n \in 2 .. MaxConcurrent : IssueConcurrent(l, n)
GetState == \E id \in RequestIds : HandleGetMachine(id)
StartCycle == \E id \in RequestIds, outcome \in StartCycleOutcomes :
                HandleStartMachine(id, outcome)

Next == Reserve \/ GetState \/ StartCycle

Spec == Init /\ [][Next]_vars

\* The scenario of concurrent reservation: requests are served one at a
\* time; at some moment N Reserve calls are issued together and are then
\* served in any order, interleaved with any other requests, until the last
\* of them has returned.
AllReturned == inflight.n > 0 /\ inflight.pending = 0

NextConcurrent == Concurrent \/ (~ AllReturned /\ Next)

SpecConcurrent == Init /\ [][NextConcurrent]_vars

\* =================================================================
\* Properties
\* =================================================================

\* C1: when N >= 2 Reserve calls are in flight together against a location
\* with exactly one AVAILABLE machine, never two of them return OK, and once
\* all have returned exactly one returned OK and the other N-1 NOT_FOUND.
C1_ExactlyOneSuccess ==
  /\ inflight.ok <= 1
  /\ AllReturned => inflight.ok = 1 /\ inflight.nf = inflight.n - 1

\* all of MaxConcurrent concurrent calls have returned
C1_Witness ==
  AllReturned /\ inflight.n = MaxConcurrent /\ inflight.ok = 1

\* C2: no machine is returned with OK by two Reserve calls, and once a
\* Reserve has set a machine's jobId no later operation changes it.
C2_AtMostOneJob ==
  [][\A m \in MachineIds :
        /\ reservedOk'[m] <= 1
        /\ reservedOk[m] >= 1 => store'[m].jobId = store[m].jobId]_vars

\* a reserved machine went on to a started cycle and still holds its job
C2_Witness ==
  \E m \in MachineIds :
    /\ reservedOk[m] = 1
    /\ store[m].jobId \in JobIds
    /\ resp.op = "StartCycle" /\ resp.machineId = m /\ resp.statusCode = OK

\* C3: in every reachable state every AVAILABLE machine has jobId = null.
C3_AvailableHasNoJob ==
  \A m \in MachineIds : store[m].status = AVAILABLE => store[m].jobId = Null

\* a Reserve has just succeeded at a location that still has an AVAILABLE machine
C3_Witness ==
  /\ resp.op = "Reserve" /\ resp.statusCode = OK
  /\ \E m \in MachineIds : /\ store[m].locationId = resp.locationId
                           /\ store[m].status = AVAILABLE
                           /\ store[m].jobId = Null

\* C4: a GetState(m) served after a Reserve that chose m, or after a
\* StartCycle(m) that returned OK or HARDWARE_ERROR, returns OK with a record
\* whose status is the status of that transition.
C4_GetStateAfterTransition ==
  (/\ resp.op = "GetState"
   /\ resp.machineId \in MachineIds
   /\ transition[resp.machineId] # "none")
  => /\ resp.statusCode = OK
     /\ resp.machine.status = transition[resp.machineId]

\* C5: a Reserve that found an AVAILABLE machine leaves the chosen machine's
\* table record with status AWAITING_DROPOFF and the requested jobId, and
\* every other table record as it was.
C5_ReserveStoreUpdate ==
  [][(resp'.op = "Reserve" /\ resp'.statusCode = OK)
       => LET id == resp'.machine.machineId
          IN /\ store[id].status = AVAILABLE
             /\ store'[id].status = AWAITING_DROPOFF
             /\ store'[id].jobId = resp'.jobId
             /\ store'[id].machineId = id
             /\ store'[id].locationId = resp'.locationId
             /\ \A m \in MachineIds \ {id} : store'[m] = store[m]]_vars

\* a Reserve has just bound the requested job to the machine it returned
C5_Witness ==
  /\ resp.op = "Reserve" /\ resp.statusCode = OK
  /\ store[resp.machine.machineId].status = AWAITING_DROPOFF
  /\ store[resp.machine.machineId].jobId = resp.jobId
  /\ \E m \in MachineIds : m # resp.machine.machineId

\* C6: a successful Reserve returns, and writes to the cache, the updated
\* record: status AWAITING_DROPOFF and the requested jobId.
C6_ReserveReturnsUpdated ==
  (resp.op = "Reserve" /\ resp.statusCode = OK)
  => /\ resp.machine.status = AWAITING_DROPOFF
     /\ resp.machine.jobId = resp.jobId
     /\ cache[resp.machine.machineId].status = AWAITING_DROPOFF
     /\ cache[resp.machine.machineId].jobId = resp.jobId

\* C7: StartCycle(m) on an existing machine whose status is not
\* AWAITING_DROPOFF returns BAD_REQUEST with the current record, and changes
\* neither the table, nor the cache, nor the controller's call counts.
C7_StartRejected ==
  [][\A id \in MachineIds, outcome \in StartCycleOutcomes :
        (HandleStartMachine(id, outcome) /\ store[id].status # AWAITING_DROPOFF)
        => /\ resp'.statusCode = BAD_REQUEST
           /\ resp'.machine = store[id]
           /\ UNCHANGED <<store, cache, startCalls>>]_vars

\* a StartCycle on a RUNNING machine was rejected, the controller never called
C7_Witness ==
  /\ resp.op = "StartCycle" /\ resp.statusCode = BAD_REQUEST
  /\ resp.machine.status = RUNNING
  /\ store[resp.machineId] = resp.machine
  /\ startCalls[resp.machineId] = 0

\* C8: StartCycle(m) on an AWAITING_DROPOFF machine whose device command
\* fails sets the table status to ERROR, caches the re-read record and
\* returns HARDWARE_ERROR with a record of status ERROR.
C8_StartFails ==
  [][\A id \in MachineIds :
        (HandleStartMachine(id, "throws") /\ store[id].status = AWAITING_DROPOFF)
        => /\ store'[id].status = ERROR
           /\ cache'[id] = store'[id]
           /\ resp'.statusCode = HARDWARE_ERROR
           /\ resp'.machine = store'[id]
           /\ resp'.machine.status = ERROR]_vars

\* a StartCycle has just returned HARDWARE_ERROR
C8_Witness ==
  /\ resp.op = "StartCycle" /\ resp.statusCode = HARDWARE_ERROR
  /\ store[resp.machineId].status = ERROR
  /\ startCalls[resp.machineId] = 1

\* C9: StartCycle(m) on an AWAITING_DROPOFF machine whose device command
\* succeeds sets the table status to RUNNING, leaves the jobId, caches the
\* re-read record and returns OK with a record of status RUNNING.
C9_StartSucceeds ==
  [][\A id \in MachineIds :
        (HandleStartMachine(id, "returns") /\ store[id].status = AWAITING_DROPOFF)
        => /\ store'[id].status = RUNNING
           /\ store'[id].jobId = store[id].jobId
           /\ cache'[id] = store'[id]
           /\ resp'.statusCode = OK
           /\ resp'.machine = store'[id]
           /\ resp'.machine.status = RUNNING]_vars

\* a StartCycle has just returned OK for a machine reserved for a job
C9_Witness ==
  /\ resp.op = "StartCycle" /\ resp.statusCode = OK
  /\ store[resp.machineId].status = RUNNING
  /\ store[resp.machineId].jobId \in JobIds
  /\ cache[resp.machineId] = store[resp.machineId]

\* C10: every change of a table status is AVAILABLE -> AWAITING_DROPOFF by a
\* Reserve, or AWAITING_DROPOFF -> RUNNING or AWAITING_DROPOFF -> ERROR by a
\* StartCycle; nothing returns to AVAILABLE, RUNNING and ERROR are final.
C10_Lifecycle ==
  [][\A m \in MachineIds :
        store'[m].status # store[m].status
        => \/ /\ store[m].status = AVAILABLE
              /\ store'[m].status = AWAITING_DROPOFF
              /\ resp'.op = "Reserve"
           \/ /\ store[m].status = AWAITING_DROPOFF
              /\ store'[m].status \in {RUNNING, ERROR}
              /\ resp'.op = "StartCycle"
              /\ resp'.machineId = m]_vars

\* one machine went AVAILABLE -> AWAITING_DROPOFF -> RUNNING, another -> ERROR
C10_Witness ==
  \E m, k \in MachineIds :
    /\ reservedOk[m] = 1 /\ store[m].status = RUNNING /\ startCalls[m] = 1
    /\ reservedOk[k] = 1 /\ store[k].status = ERROR /\ startCalls[k] = 1

\* C11: write-through: every write of a cache entry stores a record the
\* table holds once the operation's update is applied, or held right before
\* it; the cache never takes a status or jobId ahead of the table.
C11_WriteThrough ==
  [][\A id \in RequestIds :
        cache'[id] # cache[id]
        => /\ id \in MachineIds
           /\ cache'[id] \in {store[id], store'[id]}]_vars

\* a StartCycle has updated the table and cached the record it re-read
C11_Witness ==
  /\ resp.op = "StartCycle" /\ resp.statusCode \in {OK, HARDWARE_ERROR}
  /\ cache[resp.machineId] = store[resp.machineId]
  /\ \E m \in MachineIds : reservedOk[m] = 1 /\ cache[m] # Undefined

\* C12: lock-step: between operations every cache entry equals the table's
\* current record of that machine.
C12_CacheEqualsStore ==
  \A id \in RequestIds :
    cache[id] # Undefined => id \in MachineIds /\ cache[id] = store[id]

\* C13: GetState(m) for an id neither in the cache nor in the table returns
\* NOT_FOUND without a record and changes neither the cache nor the table.
C13_GetStateUnknown ==
  [][\A id \in RequestIds :
        (/\ HandleGetMachine(id)
         /\ cache[id] = Undefined
         /\ id \notin MachineIds)
        => /\ resp'.statusCode = NOT_FOUND
           /\ resp'.machine = Undefined
           /\ UNCHANGED <<store, cache>>]_vars

\* a GetState for the unknown id was answered while other entries are cached
C13_Witness ==
  /\ resp.op = "GetState" /\ resp.machineId = UnknownId
  /\ resp.statusCode = NOT_FOUND
  /\ cache[UnknownId] = Undefined
  /\ \E m \in MachineIds : cache[m] # Undefined

\* C14: Reserve returns NOT_FOUND when no machine at the location is
\* AVAILABLE, whatever the other locations hold, and then changes neither
\* the table nor the cache.
C14_ReserveNoCandidate ==
  [][\A l \in Locations, j \in JobIds :
        (HandleRequestMachine(l, j) /\ CountAvailable(l) = 0)
        => /\ resp'.statusCode = NOT_FOUND
           /\ resp'.machine = Undefined
           /\ UNCHANGED <<store, cache>>]_vars

\* a Reserve found no candidate while another location had an AVAILABLE machine
C14_Witness ==
  /\ resp.op = "Reserve" /\ resp.statusCode = NOT_FOUND
  /\ \E m \in MachineIds : /\ store[m].status = AVAILABLE
                           /\ store[m].locationId # resp.locationId

\* C15: a StartCycle that invoked the device command ends with the table
\* status of its machine RUNNING (command succeeded) or ERROR (command
\* failed); no machine is left AWAITING_DROPOFF with a command issued.
C15_StartCompletes ==
  /\ \A m \in MachineIds :
       startCalls[m] >= 1 => store[m].status \in {RUNNING, ERROR}
  /\ (resp.op = "StartCycle" /\ resp.statusCode = OK)
       => store[resp.machineId].status = RUNNING
  /\ (resp.op = "StartCycle" /\ resp.statusCode = HARDWARE_ERROR)
       => store[resp.machineId].status = ERROR

\* the command was issued for two machines, one succeeded and one failed
C15_Witness ==
  \E m, k \in MachineIds :
    /\ startCalls[m] = 1 /\ store[m].status = RUNNING
    /\ startCalls[k] = 1 /\ store[k].status = ERROR
    /\ resp.op = "StartCycle"

\* C16: a reservation is never seen half-made: no table state between
\* operations, no cache entry and no GetState response shows
\* AWAITING_DROPOFF with jobId null, or AVAILABLE with a jobId.
Torn(doc) ==
  \/ doc.status = AWAITING_DROPOFF /\ doc.jobId = Null
  \/ doc.status = AVAILABLE /\ doc.jobId # Null

C16_ReservationAtomic ==
  /\ \A m \in MachineIds : ~ Torn(store[m]) /\ ~ Torn(cache[m])
  /\ resp.op = "GetState" => ~ Torn(resp.machine)

\* a GetState was answered for a machine a Reserve has bound to a job
C16_Witness ==
  /\ resp.op = "GetState" /\ resp.statusCode = OK
  /\ reservedOk[resp.machineId] = 1
  /\ store[resp.machineId].status = AWAITING_DROPOFF
  /\ store[resp.machineId].jobId \in JobIds

\* C17: GetState never changes the table; on a hit it returns OK with the
\* cached record and leaves the cache; on a miss for a machine of the table
\* it returns OK with the table's record and caches exactly that record
\* under that id.
C17_GetStateFrame ==
  [][\A id \in RequestIds :
        HandleGetMachine(id)
        => /\ store' = store
           /\ cache[id] # Undefined
                => /\ resp'.statusCode = OK
                   /\ resp'.machine = cache[id]
                   /\ cache' = cache
           /\ (cache[id] = Undefined /\ id \in MachineIds)
                => /\ resp'.statusCode = OK
                   /\ resp'.machine = store[id]
                   /\ cache' = [cache EXCEPT ![id] = store[id]]]_vars

\* a hit returned a cached record that differs from the table's record
C17_Witness ==
  /\ resp.op = "GetState" /\ resp.statusCode = OK
  /\ resp.machine = cache[resp.machineId]
  /\ resp.machine # store[resp.machineId]

\* C18: the outcome of StartCycle(m) is decided by the table's record of m
\* alone: NOT_FOUND when there is none, BAD_REQUEST when its status is not
\* AWAITING_DROPOFF, the device command otherwise, whatever the cache holds.
C18_StartDecidesOnStore ==
  [][\A id \in RequestIds, outcome \in StartCycleOutcomes :
        HandleStartMachine(id, outcome)
        => /\ id \notin MachineIds
                => resp'.statusCode = NOT_FOUND /\ startCalls' = startCalls
           /\ (id \in MachineIds /\ store[id].status # AWAITING_DROPOFF)
                => resp'.statusCode = BAD_REQUEST /\ startCalls' = startCalls
           /\ (id \in MachineIds /\ store[id].status = AWAITING_DROPOFF)
                => /\ resp'.statusCode \in {OK, HARDWARE_ERROR}
                   /\ startCalls' = [startCalls EXCEPT ![id] = @ + 1]]_vars

\* the command was issued for a machine whose cache entry, written by the
\* Reserve before, said AVAILABLE
C18_Witness ==
  /\ resp.op = "StartCycle" /\ resp.statusCode \in {OK, HARDWARE_ERROR}
  /\ reservedOk[resp.machineId] = 1
  /\ startCalls[resp.machineId] = 1
  /\ store[resp.machineId].jobId \in JobIds

\* C19: the machine a Reserve transitions and returns is the first record in
\* the listing of the location whose status is AVAILABLE; no other record,
\* so no later AVAILABLE one, is touched.
C19_FirstAvailable ==
  [][(resp'.op = "Reserve" /\ resp'.statusCode = OK)
       => LET machines == listMachinesAtLocation(store, resp'.locationId)
              id == resp'.machine.machineId
          IN /\ \E i \in 1 .. Len(machines) :
                  /\ machines[i].machineId = id
                  /\ machines[i].status = AVAILABLE
                  /\ \A k \in 1 .. (i - 1) : machines[k].status # AVAILABLE
             /\ store'[id].status = AWAITING_DROPOFF
             /\ \A m \in MachineIds \ {id} : store'[m] = store[m]]_vars

\* a Reserve took a machine and a later one of the listing is still AVAILABLE
C19_Witness ==
  /\ resp.op = "Reserve" /\ resp.statusCode = OK
  /\ \E m \in MachineIds : /\ m > resp.machine.machineId
                           /\ store[m].locationId = resp.locationId
                           /\ store[m].status = AVAILABLE

\* C20: the device command is invoked at most once per machine id: after
\* the StartCycle that invoked it, every StartCycle of that machine returns
\* BAD_REQUEST and does not invoke it again.
C20_StartAtMostOnce ==
  [][\A id \in RequestIds :
        /\ startCalls'[id] <= 1
        /\ \A outcome \in StartCycleOutcomes :
             (HandleStartMachine(id, outcome) /\ startCalls[id] >= 1)
             => resp'.statusCode = BAD_REQUEST /\ startCalls' = startCalls]_vars

\* a second StartCycle of a started machine was rejected
C20_Witness ==
  /\ resp.op = "StartCycle" /\ resp.statusCode = BAD_REQUEST
  /\ startCalls[resp.machineId] = 1
  /\ reservedOk[resp.machineId] = 1

====
